---- MODULE Spec2Model ----
(***************************************************************************)
(* A model of the governed awareness pipeline of src/core: the invariant   *)
(* gate and its population counter, the ethics gate, the agent lifecycle   *)
(* (generation, act, dissolution) with the objects it shares, the          *)
(* orchestrator's loop over observations, the audit components and the     *)
(* completion backend.                                                     *)
(*                                                                         *)
(* Python floats are modelled in fixed point: the integer n stands for the *)
(* real n / Unit, so 1.0 is Unit and 0.85 is 8500.                         *)
(*                                                                         *)
(* Python objects that can be aliased are modelled as a heap: `records`    *)
(* holds the AwarenessState objects, addressed by their index (None is 0), *)
(* and `dicts` the dict objects, addressed by the identity each gets when  *)
(* it is built: <<"record", n>> is the dict the n-th record was built      *)
(* with, <<"residue", n>> the copy made for the n-th residue, and so on.   *)
(***************************************************************************)
EXTENDS Integers, Sequences, FiniteSets, TLC

VARIABLES
    records,             \* heap of AwarenessState objects
    dicts,               \* heap of dict objects (field mappings)
    active_agents,       \* Invariants.active_agents
    spawned,             \* AgentGeneration.spawned, a list of EmergentAgent
    dissolved_residues,  \* Dissolution.dissolved_residues
    memory_state,        \* Memory.state
    snapshots,           \* Memory.snapshots
    traces,              \* Explainability.traces
    last,                \* outcome of the latest call: what it raised or returned
    pair_pc,             \* position of a caller running spawn/dissolution pairs
    pair_start,          \* active_agents when that caller started
    pair_done,           \* pairs that caller has completed
    history,             \* the orchestrator's history list (records, by reference)
    chain,               \* Lineage.chain
    evaluations,         \* SelfEvaluation.evaluations
    pc,                  \* the orchestrator's position in run()
    obs,                 \* input_state: the observation of the current cycle
    cur,                 \* awareness: the record of the current cycle
    cur_agent,           \* agent: the agent of the current cycle
    output,              \* output: what the agent's act returned
    stages,              \* the stages the current cycle has performed, in order
    llm,                 \* the completion backend handed to AgentGeneration
    requests,            \* complete() requests issued to the backend
    thread_pc,           \* position of each thread inside register_spawn
    thread_seen,         \* the counter value each thread has read
    granted              \* register_spawn calls that returned without raising

pipeline_vars == <<history, chain, evaluations, pc, obs, cur, cur_agent, output, stages>>

backend_vars == <<llm, requests>>

thread_vars == <<thread_pc, thread_seen, granted>>

vars == <<records, dicts, active_agents, spawned, dissolved_residues,
          memory_state, snapshots, traces, last, pair_pc, pair_start, pair_done,
          pipeline_vars, backend_vars, thread_vars>>

----------------------------------------------------------------------------
(* Numbers *)

Unit == 10000

MAX_UNCERTAINTY == 8500
MAX_DEPTH == 5
MIN_COHERENCE == 1500
MAX_AGENTS == 20

RISK_LIMIT == 9000
STABILITY_LIMIT == 1000

(* Bounds of the model *)
DepthBound == 7
MaxPairs == 3
MaxRecords == 2
MaxSpawned == 3
AliasRecords == 2
AliasSpawned == 1
MaxSnapshots == 1
MaxTraces == 1

None == 0

Max(a, b) == IF a >= b THEN a ELSE b

\* dict.get(key, default)
Get(d, k, default) == IF k \in DOMAIN d THEN d[k] ELSE default

EmptyDict == [k \in {} |-> 0]

----------------------------------------------------------------------------
(* Outcomes of a call *)

Returned(op, arg, ret) ==
    [op |-> op, exc |-> "none", msg |-> "none", arg |-> arg, ret |-> ret]

Raised(op, arg, exc, msg) ==
    [op |-> op, exc |-> exc, msg |-> msg, arg |-> arg, ret |-> None]

----------------------------------------------------------------------------
(* The heap *)

\* AwarenessState(field, coherence, uncertainty): the field dict is kept by
\* reference; here the caller's dict is allocated with the record.
new_record(c, u, f) ==
    /\ dicts' = dicts @@ (<<"record", Len(records) + 1>> :> f)
    /\ records' = Append(records,
                         [field |-> <<"record", Len(records) + 1>>,
                          coherence |-> c, uncertainty |-> u])

\* The content of a record's field mapping.
FieldOf(r) == dicts[records[r].field]

----------------------------------------------------------------------------
(* Invariants: src/core/governance/invariants.py *)

enforce_demo_order(coherence, uncertainty, depth, agents) ==
    IF uncertainty > MAX_UNCERTAINTY THEN "uncertainty_exceeded"
    ELSE IF coherence < MIN_COHERENCE THEN "coherence_collapsed"
    ELSE IF depth > MAX_DEPTH THEN "recursion_exceeded"
    ELSE IF agents >= MAX_AGENTS THEN "agent_population_exceeded"
    ELSE "none"

enforce_off_by_one(coherence, uncertainty, depth, agents) ==
    IF uncertainty > MAX_UNCERTAINTY THEN "uncertainty_exceeded"
    ELSE IF depth > MAX_DEPTH THEN "recursion_exceeded"
    ELSE IF coherence < MIN_COHERENCE THEN "coherence_collapsed"
    ELSE IF agents > MAX_AGENTS THEN "agent_population_exceeded"
    ELSE "none"

enforce_ignores_depth(coherence, uncertainty, depth, agents) ==
    IF uncertainty > MAX_UNCERTAINTY THEN "uncertainty_exceeded"
    ELSE IF coherence < MIN_COHERENCE THEN "coherence_collapsed"
    ELSE IF agents >= MAX_AGENTS THEN "agent_population_exceeded"
    ELSE "none"

enforce_ignores_uncertainty(coherence, uncertainty, depth, agents) ==
    IF depth > MAX_DEPTH THEN "recursion_exceeded"
    ELSE IF coherence < MIN_COHERENCE THEN "coherence_collapsed"
    ELSE IF agents >= MAX_AGENTS THEN "agent_population_exceeded"
    ELSE "none"

\* The message enforce raises, "none" when it returns.
enforce_check(coherence, uncertainty, depth, agents) ==
    IF uncertainty > MAX_UNCERTAINTY THEN "uncertainty_exceeded"
    ELSE IF depth > MAX_DEPTH THEN "recursion_exceeded"
    ELSE IF coherence < MIN_COHERENCE THEN "coherence_collapsed"
    ELSE IF agents >= MAX_AGENTS THEN "agent_population_exceeded"
    ELSE "none"

enforce(r, depth) ==
    /\ pair_pc = "idle"
    /\ LET msg == enforce_check(records[r].coherence, records[r].uncertainty,
                                depth, active_agents)
       IN  last' = IF msg = "none"
                   THEN Returned("enforce", <<r, depth, active_agents>>, None)
                   ELSE Raised("enforce", <<r, depth, active_agents>>,
                               "InvariantViolation", msg)
    /\ UNCHANGED <<thread_vars, pipeline_vars, backend_vars, records, dicts, active_agents, spawned, dissolved_residues,
                   memory_state, snapshots, traces, pair_pc, pair_start, pair_done>>

register_spawn_no_rollback(agents) ==
    LET incremented == agents + 1
    IN  IF incremented > MAX_AGENTS
        THEN [agents |-> incremented, msg |-> "agent_population_exceeded"]
        ELSE [agents |-> incremented, msg |-> "none"]

\* register_spawn: increment, then check, then roll back and raise.
register_spawn_step(agents) ==
    LET incremented == agents + 1
    IN  IF incremented > MAX_AGENTS
        THEN [agents |-> incremented - 1, msg |-> "agent_population_exceeded"]
        ELSE [agents |-> incremented, msg |-> "none"]

register_dissolution_no_decrement(agents) == Max(0, agents)

register_dissolution_no_floor(agents) == agents - 1

\* register_dissolution: decrement, floored at 0.
register_dissolution_step(agents) == Max(0, agents - 1)

do_register_spawn ==
    LET res == register_spawn_step(active_agents)
    IN  /\ active_agents' = res.agents
        /\ last' = IF res.msg = "none"
                   THEN Returned("register_spawn", active_agents, None)
                   ELSE Raised("register_spawn", active_agents,
                               "InvariantViolation", res.msg)

do_register_dissolution ==
    /\ active_agents' = register_dissolution_step(active_agents)
    /\ last' = Returned("register_dissolution", active_agents, None)

register_spawn ==
    /\ pair_pc = "idle"
    /\ do_register_spawn
    /\ UNCHANGED <<thread_vars, pipeline_vars, backend_vars, records, dicts, spawned, dissolved_residues,
                   memory_state, snapshots, traces, pair_pc, pair_start, pair_done>>

register_dissolution ==
    /\ pair_pc = "idle"
    /\ do_register_dissolution
    /\ UNCHANGED <<thread_vars, pipeline_vars, backend_vars, records, dicts, spawned, dissolved_residues,
                   memory_state, snapshots, traces, pair_pc, pair_start, pair_done>>

----------------------------------------------------------------------------
(* A caller that runs register_spawn immediately followed by               *)
(* register_dissolution, a number of times, with no other call in between. *)
(* It makes both calls of a pair, also when register_spawn raised.         *)

begin_pairs ==
    /\ pair_pc = "idle"
    /\ pair_pc' = "spawn"
    /\ pair_start' = active_agents
    /\ pair_done' = 0
    /\ UNCHANGED <<thread_vars, pipeline_vars, backend_vars, records, dicts, active_agents, spawned, dissolved_residues,
                   memory_state, snapshots, traces, last>>

pair_register_spawn ==
    /\ pair_pc = "spawn"
    /\ pair_done < MaxPairs
    /\ do_register_spawn
    /\ pair_pc' = "dissolution"
    /\ UNCHANGED <<thread_vars, pipeline_vars, backend_vars, records, dicts, spawned, dissolved_residues,
                   memory_state, snapshots, traces, pair_start, pair_done>>

pair_register_dissolution ==
    /\ pair_pc = "dissolution"
    /\ do_register_dissolution
    /\ pair_pc' = "spawn"
    /\ pair_done' = pair_done + 1
    /\ UNCHANGED <<thread_vars, pipeline_vars, backend_vars, records, dicts, spawned, dissolved_residues,
                   memory_state, snapshots, traces, pair_start>>

end_pairs ==
    /\ pair_pc = "spawn"
    /\ pair_pc' = "idle"
    /\ pair_start' = 0
    /\ pair_done' = 0
    /\ UNCHANGED <<thread_vars, pipeline_vars, backend_vars, records, dicts, active_agents, spawned, dissolved_residues,
                   memory_state, snapshots, traces, last>>

----------------------------------------------------------------------------
(* Ethics: src/core/governance/ethics.py *)

validate_stability_default_zero(coherence, uncertainty, f) ==
    IF coherence <= 0 THEN "action_from_zero_coherence"
    ELSE IF uncertainty >= Unit THEN "action_from_total_uncertainty"
    ELSE IF Get(f, "risk", 0) > RISK_LIMIT /\ Get(f, "stability", 0) < STABILITY_LIMIT
         THEN "unstable_high_risk_action"
    ELSE "none"

\* The message validate raises, "none" when it returns True.
validate_check(coherence, uncertainty, f) ==
    IF coherence <= 0 THEN "action_from_zero_coherence"
    ELSE IF uncertainty >= Unit THEN "action_from_total_uncertainty"
    ELSE IF Get(f, "risk", 0) > RISK_LIMIT /\ Get(f, "stability", Unit) < STABILITY_LIMIT
         THEN "unstable_high_risk_action"
    ELSE "none"

validate(r) ==
    /\ pair_pc = "idle"
    /\ LET msg == validate_check(records[r].coherence, records[r].uncertainty, FieldOf(r))
       IN  last' = IF msg = "none"
                   THEN Returned("validate", r, TRUE)
                   ELSE Raised("validate", r, "EthicsViolation", msg)
    /\ UNCHANGED <<thread_vars, pipeline_vars, backend_vars, records, dicts, active_agents, spawned, dissolved_residues,
                   memory_state, snapshots, traces, pair_pc, pair_start, pair_done>>

----------------------------------------------------------------------------
(* The gates under every record: inputs of the gate specification *)

GateCoherence == {0, 1400, 1500, 1600, Unit}
GateUncertainty == {0, 8400, 8500, 8600, Unit}
GateFields ==
    { EmptyDict,
      [k \in {"risk"} |-> 9500],
      [k \in {"stability"} |-> 0],
      [k \in {"risk", "stability"} |-> IF k = "risk" THEN 9500 ELSE 500],
      [k \in {"risk", "stability"} |-> IF k = "risk" THEN 9000 ELSE 500],
      [k \in {"risk", "stability"} |-> IF k = "risk" THEN 9500 ELSE 1000] }

\* The caller builds the one record the gates are asked about.
gate_record(c, u, f) ==
    /\ pair_pc = "idle"
    /\ records = <<>>
    /\ new_record(c, u, f)
    /\ last' = Returned("AwarenessState", None, Len(records) + 1)
    /\ UNCHANGED <<thread_vars, pipeline_vars, backend_vars, active_agents, spawned, dissolved_residues,
                   memory_state, snapshots, traces, pair_pc, pair_start, pair_done>>

----------------------------------------------------------------------------
(* EmergentAgent, AgentGeneration, Dissolution: src/core/emergence *)

\* EmergentAgent.__init__: the agent keeps a reference to the record.
new_agent(r) == [awareness |-> r, alive |-> TRUE]

\* AgentGeneration.spawn: build the agent and append it; it neither reads nor
\* writes the population counter.
spawn(r) ==
    /\ spawned' = Append(spawned, new_agent(r))
    /\ last' = Returned("spawn", r, Len(spawned) + 1)
    /\ UNCHANGED <<thread_vars, pipeline_vars, backend_vars, records, dicts, active_agents, dissolved_residues,
                   memory_state, snapshots, traces, pair_pc, pair_start, pair_done>>

\* AgentGeneration.active_agents(): the spawned agents that are alive.
generation_active_agents == {a \in DOMAIN spawned : spawned[a].alive}

\* EmergentAgent.act without a completion backend: the output refers to the
\* record's own field dict; reading self.awareness.field of a released
\* record (None) raises AttributeError.
act_output(agent, context_keys) ==
    IF agent.awareness = None
    THEN [exc |-> "AttributeError", output |-> None]
    ELSE [exc |-> "none",
          output |-> [awareness_field |-> records[agent.awareness].field,
                      context_keys |-> context_keys]]

act(a, context_keys) ==
    /\ LET out == act_output(spawned[a], context_keys)
       IN  last' = IF out.exc = "none"
                   THEN Returned("act", a, out.output)
                   ELSE Raised("act", a, out.exc, "NoneType")
    /\ UNCHANGED <<thread_vars, pipeline_vars, backend_vars, records, dicts, active_agents, spawned, dissolved_residues,
                   memory_state, snapshots, traces, pair_pc, pair_start, pair_done>>

agent_dissolve_aliases_field(agent) ==
    IF agent.awareness = None
    THEN [agent |-> [agent EXCEPT !.alive = FALSE], exc |-> "AttributeError",
          residue |-> None, allocated |-> EmptyDict]
    ELSE [agent |-> [awareness |-> None, alive |-> FALSE], exc |-> "none",
          residue |-> [final_coherence |-> records[agent.awareness].coherence,
                       final_uncertainty |-> records[agent.awareness].uncertainty,
                       final_field |-> records[agent.awareness].field],
          allocated |-> EmptyDict]

agent_dissolve_keeps_record(agent) ==
    IF agent.awareness = None
    THEN [agent |-> [agent EXCEPT !.alive = FALSE], exc |-> "AttributeError",
          residue |-> None, allocated |-> EmptyDict]
    ELSE [agent |-> [agent EXCEPT !.alive = FALSE], exc |-> "none",
          residue |-> [final_coherence |-> records[agent.awareness].coherence,
                       final_uncertainty |-> records[agent.awareness].uncertainty,
                       final_field |-> <<"residue", Len(dissolved_residues) + 1>>],
          allocated |-> (<<"residue", Len(dissolved_residues) + 1>> :>
                            dicts[records[agent.awareness].field])]

\* EmergentAgent.dissolve: alive is cleared first; the residue takes the
\* record's coherence and uncertainty and a new dict built from its field;
\* then the record is released. On an agent already released, reading
\* self.awareness.coherence raises AttributeError after alive was cleared.
agent_dissolve(agent) ==
    IF agent.awareness = None
    THEN [agent |-> [agent EXCEPT !.alive = FALSE], exc |-> "AttributeError",
          residue |-> None, allocated |-> EmptyDict]
    ELSE [agent |-> [awareness |-> None, alive |-> FALSE], exc |-> "none",
          residue |-> [final_coherence |-> records[agent.awareness].coherence,
                       final_uncertainty |-> records[agent.awareness].uncertainty,
                       final_field |-> <<"residue", Len(dissolved_residues) + 1>>],
          allocated |-> (<<"residue", Len(dissolved_residues) + 1>> :>
                            dicts[records[agent.awareness].field])]

\* Dissolution.dissolve: dissolve the agent and append its residue; when the
\* agent raises nothing is appended. The population counter is not touched.
dissolve(a) ==
    /\ LET out == agent_dissolve(spawned[a])
       IN  /\ spawned' = [spawned EXCEPT ![a] = out.agent]
           /\ dicts' = dicts @@ out.allocated
           /\ IF out.exc = "none"
              THEN /\ dissolved_residues' = Append(dissolved_residues, out.residue)
                   /\ last' = Returned("dissolve", a, Len(dissolved_residues) + 1)
              ELSE /\ dissolved_residues' = dissolved_residues
                   /\ last' = Raised("dissolve", a, out.exc, "NoneType")
    /\ UNCHANGED <<thread_vars, pipeline_vars, backend_vars, records, active_agents, memory_state, snapshots, traces,
                   pair_pc, pair_start, pair_done>>

\* The orchestrator's spawn step: invariants.register_spawn() and, unless it
\* raised, generator.spawn(awareness).
run_spawn(r) ==
    /\ LET res == register_spawn_step(active_agents)
       IN  /\ active_agents' = res.agents
           /\ IF res.msg = "none"
              THEN /\ spawned' = Append(spawned, new_agent(r))
                   /\ last' = Returned("run_spawn", r, Len(spawned) + 1)
              ELSE /\ spawned' = spawned
                   /\ last' = Raised("run_spawn", r, "InvariantViolation", res.msg)
    /\ UNCHANGED <<thread_vars, pipeline_vars, backend_vars, records, dicts, dissolved_residues,
                   memory_state, snapshots, traces, pair_pc, pair_start, pair_done>>

\* The orchestrator's dissolve step: dissolution.dissolve(agent) and, unless
\* it raised, invariants.register_dissolution().
run_dissolve(a) ==
    /\ LET out == agent_dissolve(spawned[a])
       IN  /\ spawned' = [spawned EXCEPT ![a] = out.agent]
           /\ dicts' = dicts @@ out.allocated
           /\ IF out.exc = "none"
              THEN /\ dissolved_residues' = Append(dissolved_residues, out.residue)
                   /\ active_agents' = register_dissolution_step(active_agents)
                   /\ last' = Returned("run_dissolve", a, Len(dissolved_residues) + 1)
              ELSE /\ dissolved_residues' = dissolved_residues
                   /\ active_agents' = active_agents
                   /\ last' = Raised("run_dissolve", a, out.exc, "NoneType")
    /\ UNCHANGED <<thread_vars, pipeline_vars, backend_vars, records, memory_state, snapshots, traces,
                   pair_pc, pair_start, pair_done>>

\* Dissolution.total_dissolved and Dissolution.last_residue
total_dissolved == Len(dissolved_residues)

last_residue ==
    IF dissolved_residues # <<>> THEN dissolved_residues[Len(dissolved_residues)] ELSE None

\* The caller holds the residue dissolve returned (the object the history
\* list holds) and writes a key of its final_field.
mutate_residue(i, k, v) ==
    /\ dicts' = [dicts EXCEPT ![dissolved_residues[i].final_field] =
                    [x \in DOMAIN @ \cup {k} |-> IF x = k THEN v ELSE @[x]]]
    /\ last' = Returned("mutate_residue", i, None)
    /\ UNCHANGED <<thread_vars, pipeline_vars, backend_vars, records, active_agents, spawned, dissolved_residues,
                   memory_state, snapshots, traces, pair_pc, pair_start, pair_done>>

----------------------------------------------------------------------------
(* Memory: src/core/knowledge/memory.py *)

\* Memory.update: the state and the new snapshot each get their own copy of
\* the record's field; timestamps are the count of updates.
do_memory_update(r) ==
    /\ dicts' = dicts @@ (<<"state", Len(snapshots) + 1>> :> FieldOf(r))
                      @@ (<<"snapshot", Len(snapshots) + 1>> :> FieldOf(r))
    /\ memory_state' =
          [k \in DOMAIN memory_state \cup {"coherence", "uncertainty", "field", "last_updated"} |->
              CASE k = "coherence" -> records[r].coherence
                [] k = "uncertainty" -> records[r].uncertainty
                [] k = "field" -> <<"state", Len(snapshots) + 1>>
                [] k = "last_updated" -> Len(snapshots) + 1
                [] OTHER -> memory_state[k]]
    /\ snapshots' = Append(snapshots,
                           [coherence |-> records[r].coherence,
                            uncertainty |-> records[r].uncertainty,
                            field |-> <<"snapshot", Len(snapshots) + 1>>,
                            timestamp |-> Len(snapshots) + 1])

memory_update(r) ==
    /\ do_memory_update(r)
    /\ last' = Returned("memory_update", r, None)
    /\ UNCHANGED <<thread_vars, pipeline_vars, backend_vars, records, active_agents, spawned, dissolved_residues, traces,
                   pair_pc, pair_start, pair_done>>

----------------------------------------------------------------------------
(* Explainability: src/core/governance/explainability.py *)

\* Explainability.explain: the entry holds its own copy of the field.
explain(r) ==
    /\ dicts' = dicts @@ (<<"trace", Len(traces) + 1>> :> FieldOf(r))
    /\ traces' = Append(traces,
                        [field |-> <<"trace", Len(traces) + 1>>,
                         coherence |-> records[r].coherence,
                         uncertainty |-> records[r].uncertainty,
                         timestamp |-> Len(traces) + 1])
    /\ last' = Returned("explain", r, Len(traces) + 1)
    /\ UNCHANGED <<thread_vars, pipeline_vars, backend_vars, records, active_agents, spawned, dissolved_residues,
                   memory_state, snapshots, pair_pc, pair_start, pair_done>>

----------------------------------------------------------------------------
(* Continuity: src/core/audit/continuity.py *)

DRIFT_EVENT == 2000

Min(a, b) == IF a <= b THEN a ELSE b

\* round(n / d) to the nearest integer, ties to the even one, as round() does.
RoundDiv(n, d) ==
    LET q == n \div d
        r == n % d
    IN  IF 2 * r > d \/ (2 * r = d /\ q % 2 = 1) THEN q + 1 ELSE q

RECURSIVE Sum(_)
Sum(s) == IF s = <<>> THEN 0 ELSE Head(s) + Sum(Tail(s))

assess_empty_is_continuous(h) ==
    IF Len(h) = 0
    THEN [length |-> 0, continuous |-> TRUE, average_coherence |-> 0,
          coherence_trend |-> "none", drift_events |-> 0]
    ELSE LET coherences == [i \in DOMAIN h |-> records[h[i]].coherence]
             drift_events ==
                 Cardinality({i \in 2..Len(h) : Get(FieldOf(h[i]), "drift", 0) > DRIFT_EVENT})
         IN  [length |-> Len(h),
              continuous |-> (drift_events = 0),
              average_coherence |-> RoundDiv(Sum(coherences), Len(coherences)),
              coherence_trend |->
                  IF Len(coherences) >= 2
                  THEN IF coherences[Len(h)] > coherences[1] THEN "improving"
                       ELSE IF coherences[Len(h)] < coherences[1] THEN "degrading"
                       ELSE "stable"
                  ELSE "insufficient_data",
              drift_events |-> drift_events]

assess_counts_first_entry(h) ==
    IF Len(h) = 0
    THEN [length |-> 0, continuous |-> FALSE, average_coherence |-> 0,
          coherence_trend |-> "none", drift_events |-> 0]
    ELSE LET coherences == [i \in DOMAIN h |-> records[h[i]].coherence]
             drift_events ==
                 Cardinality({i \in 1..Len(h) : Get(FieldOf(h[i]), "drift", 0) > DRIFT_EVENT})
         IN  [length |-> Len(h),
              continuous |-> (drift_events = 0),
              average_coherence |-> RoundDiv(Sum(coherences), Len(coherences)),
              coherence_trend |->
                  IF Len(coherences) >= 2
                  THEN IF coherences[Len(h)] > coherences[1] THEN "improving"
                       ELSE IF coherences[Len(h)] < coherences[1] THEN "degrading"
                       ELSE "stable"
                  ELSE "insufficient_data",
              drift_events |-> drift_events]

\* What Continuity.assess returns for a history, a list of records held by
\* reference. Python's history[i], i in range(1, len), is h[i] for i in
\* 2..Len(h) here.
assess_result(h) ==
    IF Len(h) = 0
    THEN [length |-> 0, continuous |-> FALSE, average_coherence |-> 0,
          coherence_trend |-> "none", drift_events |-> 0]
    ELSE LET coherences == [i \in DOMAIN h |-> records[h[i]].coherence]
             drift_events ==
                 Cardinality({i \in 2..Len(h) : Get(FieldOf(h[i]), "drift", 0) > DRIFT_EVENT})
         IN  [length |-> Len(h),
              continuous |-> (drift_events = 0),
              average_coherence |-> RoundDiv(Sum(coherences), Len(coherences)),
              coherence_trend |->
                  IF Len(coherences) >= 2
                  THEN IF coherences[Len(h)] > coherences[1] THEN "improving"
                       ELSE IF coherences[Len(h)] < coherences[1] THEN "degrading"
                       ELSE "stable"
                  ELSE "insufficient_data",
              drift_events |-> drift_events]

\* A caller assesses the history it holds.
assess ==
    /\ last' = Returned("assess", history, assess_result(history))
    /\ UNCHANGED <<thread_vars, pipeline_vars, backend_vars, records, dicts, active_agents, spawned,
                   dissolved_residues, memory_state, snapshots, traces,
                   pair_pc, pair_start, pair_done>>

----------------------------------------------------------------------------
(* Counterfactual: src/core/audit/counterfactual.py *)

\* The values explore computes are kept ten times finer than the model's
\* grain, so that a double that is not the decimal it prints as can be told
\* from it: 0.55 + 0.3 is 0.8500000000000001 and 0.55 - 0.4 is
\* 0.15000000000000002 in IEEE-754 doubles, each one step above the literal
\* (0.85, 0.15) explore compares it with. Fine(x) + 1 stands for such a value.
Fine(x) == 10 * x

float_exact(op, x, y) == 0

\* The sign of (the double x op y) - (the decimal x op y) at the operands where
\* it decides one of explore's comparisons.
float_excess(op, x, y) ==
    IF op = "+" /\ x = 5500 /\ y = 3000 THEN 1
    ELSE IF op = "-" /\ x = 5500 /\ y = 4000 THEN 1
    ELSE 0

\* The tag explore puts on each scenario.
would_violate(scenario) ==
    scenario.uncertainty > Fine(8500) \/ scenario.coherence < Fine(1500)

\* The three scenarios before they are tagged; risk_delta is in the model's
\* grain, coherence and uncertainty in the finer one.
explore_scenarios(c, u, risk) ==
    [higher_coherence |->
        [coherence |-> Min(Fine(Unit), Fine(c + 2000) + float_excess("+", c, 2000)),
         uncertainty |-> Fine(u),
         risk_delta |-> RoundDiv((0 - 2000) * risk, Unit)],
     lower_uncertainty |->
        [coherence |-> Fine(c),
         uncertainty |-> Max(0, Fine(u - 2000) + float_excess("-", u, 2000)),
         risk_delta |-> RoundDiv((0 - 1500) * risk, Unit)],
     coherence_collapse |->
        [coherence |-> Max(0, Fine(c - 4000) + float_excess("-", c, 4000)),
         uncertainty |-> Min(Fine(Unit), Fine(u + 3000) + float_excess("+", u, 3000)),
         risk_delta |-> 5000]]

explore_result(r) ==
    LET s == explore_scenarios(records[r].coherence, records[r].uncertainty,
                               Get(FieldOf(r), "risk", 0))
    IN  [name \in DOMAIN s |->
            [coherence |-> s[name].coherence,
             uncertainty |-> s[name].uncertainty,
             risk_delta |-> s[name].risk_delta,
             would_violate_invariant |-> would_violate(s[name])]]

explore(r) ==
    /\ last' = Returned("explore", r, explore_result(r))
    /\ UNCHANGED <<thread_vars, pipeline_vars, backend_vars, records, dicts, active_agents, spawned,
                   dissolved_residues, memory_state, snapshots, traces,
                   pair_pc, pair_start, pair_done>>

----------------------------------------------------------------------------
(* Inputs of the audit specifications *)

MaxHistory == 3
ExploreRecords == 1

HistoryCoherence == {6000, 9000}
HistoryFields ==
    { EmptyDict, [k \in {"drift"} |-> 2000], [k \in {"drift"} |-> 2100] }

ExploreCoherence == {0, 1500, 5400, 5500, 5600, Unit}
ExploreUncertainty == {0, 1500, 5400, 5500, 5600, Unit}
ExploreFields == { EmptyDict, [k \in {"risk"} |-> 2200] }

\* The caller builds a record and appends it to the history it keeps.
history_record(c, u, f) ==
    /\ new_record(c, u, f)
    /\ history' = Append(history, Len(records) + 1)
    /\ last' = Returned("AwarenessState", None, Len(records) + 1)
    /\ UNCHANGED <<thread_vars, chain, evaluations, pc, obs, cur, cur_agent, output, stages,
                   backend_vars, active_agents, spawned, dissolved_residues,
                   memory_state, snapshots, traces, pair_pc, pair_start, pair_done>>

----------------------------------------------------------------------------
(* The awareness stages: src/core/awareness *)

\* The product of two fixed-point numbers, exact for operands of two decimals.
Mul(a, b) == (a * b) \div Unit

Abs(x) == IF x < 0 THEN 0 - x ELSE x

\* d[k] = v
SetKey(d, k, v) == [x \in DOMAIN d \cup {k} |-> IF x = k THEN v ELSE d[x]]

\* AwarenessField.generate: the coherence, the uncertainty and the field the
\* record is built with. Nothing is clamped.
generate_coherence(input_state) == Get(input_state, "coherence", Unit)

generate_uncertainty(input_state) == Unit - Get(input_state, "confidence", Unit)

generate_field_risk_by_coherence(input_state, memory) ==
    LET coherence == generate_coherence(input_state)
        uncertainty == generate_uncertainty(input_state)
    IN  [k \in {"novelty", "complexity", "risk", "memory_pressure"} |->
            CASE k = "novelty" -> Mul(Get(input_state, "novelty", 0), Unit - uncertainty)
              [] k = "complexity" -> Mul(Get(input_state, "complexity", 0), coherence)
              [] k = "risk" -> Mul(uncertainty, coherence)
              [] k = "memory_pressure" -> Get(memory, "coherence", 0)]

generate_field(input_state, memory) ==
    LET coherence == generate_coherence(input_state)
        uncertainty == generate_uncertainty(input_state)
    IN  [k \in {"novelty", "complexity", "risk", "memory_pressure"} |->
            CASE k = "novelty" -> Mul(Get(input_state, "novelty", 0), Unit - uncertainty)
              [] k = "complexity" -> Mul(Get(input_state, "complexity", 0), coherence)
              [] k = "risk" -> Mul(uncertainty, Unit - coherence)
              [] k = "memory_pressure" -> Get(memory, "coherence", 0)]

reflect_drift_signed(r, h) ==
    IF h # <<>> THEN records[r].coherence - records[h[Len(h)]].coherence ELSE 0

\* AwarenessRecursion.reflect: the drift it writes into the record's field.
reflect_drift(r, h) ==
    IF h # <<>> THEN Abs(records[r].coherence - records[h[Len(h)]].coherence) ELSE 0

regulate_stability_ignores_memory(r, memory) == records[r].coherence

\* AwarenessDynamics.regulate: the stability it writes into the record's field.
regulate_stability(r, memory) == records[r].coherence - Get(memory, "coherence", 0)

----------------------------------------------------------------------------
(* Lineage, Feedback: src/core/knowledge; SelfEvaluation: src/core/audit;  *)
(* Explainability.explain_decision                                         *)

lineage_entry_step_from_one(memory, step) ==
    [keys |-> DOMAIN memory,
     coherence |-> Get(memory, "coherence", None),
     uncertainty |-> Get(memory, "uncertainty", None),
     step |-> step + 1]

\* Lineage.track: the entry appended to the chain. The order of the keys is
\* not modelled.
lineage_entry(memory, step) ==
    [keys |-> DOMAIN memory,
     coherence |-> Get(memory, "coherence", None),
     uncertainty |-> Get(memory, "uncertainty", None),
     step |-> step]

\* Feedback.apply: the memory dict after the four writes, made in place.
feedback_apply(memory, r) ==
    LET written == {"feedback", "feedback_delta", "feedback_drift", "feedback_stability"}
    IN  [k \in DOMAIN memory \cup written |->
            CASE k = "feedback" -> records[r].coherence
              [] k = "feedback_delta" ->
                     records[r].coherence - Get(memory, "coherence", records[r].coherence)
              [] k = "feedback_drift" -> Get(FieldOf(r), "drift", 0)
              [] k = "feedback_stability" -> Get(FieldOf(r), "stability", 0)
              [] OTHER -> memory[k]]

COHERENT_ABOVE == 5000
ALIGNMENT_REQUIRED == 4000
INTEGRITY_REQUIRED == 2000

\* SelfEvaluation.evaluate: the result appended to the evaluations.
evaluate_result(r) ==
    LET risk == Get(FieldOf(r), "risk", 0)
        stability == Get(FieldOf(r), "stability", 0)
        drift == Get(FieldOf(r), "drift", 0)
        integrity == Max(0, stability - drift)
    IN  [coherent |-> records[r].coherence > COHERENT_ABOVE,
         confidence |-> Unit - records[r].uncertainty,
         alignment |-> RoundDiv(records[r].coherence * (Unit - risk), Unit),
         integrity |-> integrity,
         risk |-> risk,
         drift |-> drift,
         action_required |->
             \/ records[r].coherence * (Unit - risk) < ALIGNMENT_REQUIRED * Unit
             \/ integrity < INTEGRITY_REQUIRED]

\* The order in which the pipeline inserts the keys of a field.
FieldOrder == <<"novelty", "complexity", "risk", "memory_pressure", "drift", "stability">>

\* max(field, key=field.get): the first key, in insertion order, that holds
\* the largest value; None for an empty field.
dominant_dimension(f) ==
    IF DOMAIN f = {} THEN None
    ELSE LET keys == SelectSeq(FieldOrder, LAMBDA k : k \in DOMAIN f)
             first == CHOOSE i \in DOMAIN keys :
                         /\ \A j \in DOMAIN keys : f[keys[j]] <= f[keys[i]]
                         /\ \A j \in 1..(i - 1) : f[keys[j]] < f[keys[i]]
         IN  keys[first]

\* Explainability.explain_decision: the entry holds its own copy of the field.
explain_decision_entry(r, action_output) ==
    [field_at_decision |-> <<"trace", Len(traces) + 1>>,
     coherence |-> records[r].coherence,
     uncertainty |-> records[r].uncertainty,
     action_keys |-> DOMAIN action_output,
     dominant_dimension |-> dominant_dimension(FieldOf(r)),
     timestamp |-> Len(traces) + 1]

----------------------------------------------------------------------------
(* The orchestrator: run() of src/core/examples/awareness_continuum_example.py *)
(* One action per statement of the loop body; pc names the statement to    *)
(* run next. An exception leaves run(): pc becomes "aborted".              *)

run_order_update_after_dissolve ==
    <<"generate", "reflect", "regulate", "enforce", "validate",
      "register_spawn", "spawn", "act",
      "explain_decision", "evaluate", "explore",
      "lineage_track", "feedback_apply",
      "history_append", "dissolve", "memory_update", "register_dissolution",
      "assess">>

run_order_regulate_after_gates ==
    <<"generate", "reflect", "enforce", "validate", "regulate",
      "register_spawn", "spawn", "act",
      "explain_decision", "evaluate", "explore",
      "memory_update", "lineage_track", "feedback_apply",
      "history_append", "dissolve", "register_dissolution",
      "assess">>

\* The statements of the loop body, lines 48 to 72.
run_order ==
    <<"generate", "reflect", "regulate", "enforce", "validate",
      "register_spawn", "spawn", "act",
      "explain_decision", "evaluate", "explore",
      "memory_update", "lineage_track", "feedback_apply",
      "history_append", "dissolve", "register_dissolution",
      "assess">>

next_stage(stage) ==
    LET i == CHOOSE j \in DOMAIN run_order : run_order[j] = stage
    IN  IF i = Len(run_order) THEN run_order[1] ELSE run_order[i + 1]

after_rejection_next_observation == "generate"

\* Where run() is after a statement raised: nothing catches the exception.
after_rejection == "aborted"

\* The statement ran and returned.
advance(stage) ==
    /\ pc = stage
    /\ pc' = next_stage(stage)
    /\ stages' = IF stage = run_order[1] THEN <<stage>> ELSE Append(stages, stage)

\* The statement ran and raised.
reject(stage) ==
    /\ pc = stage
    /\ pc' = after_rejection
    /\ stages' = Append(stages, stage)

stage_generate(o) ==
    /\ advance("generate")
    /\ obs' = o
    /\ new_record(generate_coherence(o), generate_uncertainty(o),
                  generate_field(o, memory_state))
    /\ cur' = Len(records) + 1
    /\ last' = Returned("generate", o, Len(records) + 1)
    /\ UNCHANGED <<thread_vars, active_agents, spawned, dissolved_residues, memory_state, snapshots,
                   traces, history, chain, evaluations, cur_agent, output,
                   backend_vars, pair_pc, pair_start, pair_done>>

stage_reflect ==
    /\ advance("reflect")
    /\ dicts' = [dicts EXCEPT ![records[cur].field] =
                    SetKey(@, "drift", reflect_drift(cur, history))]
    /\ last' = Returned("reflect", cur, cur)
    /\ UNCHANGED <<thread_vars, records, active_agents, spawned, dissolved_residues, memory_state,
                   snapshots, traces, history, chain, evaluations, obs, cur, cur_agent,
                   output, backend_vars, pair_pc, pair_start, pair_done>>

stage_regulate ==
    /\ advance("regulate")
    /\ dicts' = [dicts EXCEPT ![records[cur].field] =
                    SetKey(@, "stability", regulate_stability(cur, memory_state))]
    /\ last' = Returned("regulate", cur, cur)
    /\ UNCHANGED <<thread_vars, records, active_agents, spawned, dissolved_residues, memory_state,
                   snapshots, traces, history, chain, evaluations, obs, cur, cur_agent,
                   output, backend_vars, pair_pc, pair_start, pair_done>>

\* invariants.enforce(awareness, depth), depth being len(history).
stage_enforce ==
    /\ pc = "enforce"
    /\ LET msg == enforce_check(records[cur].coherence, records[cur].uncertainty,
                                Len(history), active_agents)
       IN  IF msg = "none"
           THEN /\ advance("enforce")
                /\ last' = Returned("enforce", <<cur, Len(history), active_agents>>, None)
           ELSE /\ reject("enforce")
                /\ last' = Raised("enforce", <<cur, Len(history), active_agents>>,
                                  "InvariantViolation", msg)
    /\ UNCHANGED <<thread_vars, records, dicts, active_agents, spawned, dissolved_residues,
                   memory_state, snapshots, traces, history, chain, evaluations, obs,
                   cur, cur_agent, output, backend_vars, pair_pc, pair_start, pair_done>>

stage_validate ==
    /\ pc = "validate"
    /\ LET msg == validate_check(records[cur].coherence, records[cur].uncertainty,
                                 FieldOf(cur))
       IN  IF msg = "none"
           THEN /\ advance("validate")
                /\ last' = Returned("validate", cur, TRUE)
           ELSE /\ reject("validate")
                /\ last' = Raised("validate", cur, "EthicsViolation", msg)
    /\ UNCHANGED <<thread_vars, records, dicts, active_agents, spawned, dissolved_residues,
                   memory_state, snapshots, traces, history, chain, evaluations, obs,
                   cur, cur_agent, output, backend_vars, pair_pc, pair_start, pair_done>>

stage_register_spawn ==
    /\ pc = "register_spawn"
    /\ LET res == register_spawn_step(active_agents)
       IN  /\ active_agents' = res.agents
           /\ IF res.msg = "none"
              THEN /\ advance("register_spawn")
                   /\ last' = Returned("register_spawn", active_agents, None)
              ELSE /\ reject("register_spawn")
                   /\ last' = Raised("register_spawn", active_agents,
                                     "InvariantViolation", res.msg)
    /\ UNCHANGED <<thread_vars, records, dicts, spawned, dissolved_residues, memory_state, snapshots,
                   traces, history, chain, evaluations, obs, cur, cur_agent, output,
                   backend_vars, pair_pc, pair_start, pair_done>>

stage_spawn ==
    /\ advance("spawn")
    /\ spawned' = Append(spawned, new_agent(cur))
    /\ cur_agent' = Len(spawned) + 1
    /\ last' = Returned("spawn", cur, Len(spawned) + 1)
    /\ UNCHANGED <<thread_vars, records, dicts, active_agents, dissolved_residues, memory_state,
                   snapshots, traces, history, chain, evaluations, obs, cur, output,
                   backend_vars, pair_pc, pair_start, pair_done>>

\* agent.act(input_state); the generator was built without a backend.
stage_act ==
    /\ pc = "act"
    /\ LET out == act_output(spawned[cur_agent], DOMAIN obs)
       IN  IF out.exc = "none"
           THEN /\ advance("act")
                /\ output' = out.output
                /\ last' = Returned("act", cur_agent, out.output)
           ELSE /\ reject("act")
                /\ output' = output
                /\ last' = Raised("act", cur_agent, out.exc, "NoneType")
    /\ UNCHANGED <<thread_vars, records, dicts, active_agents, spawned, dissolved_residues,
                   memory_state, snapshots, traces, history, chain, evaluations, obs,
                   cur, cur_agent, backend_vars, pair_pc, pair_start, pair_done>>

stage_explain_decision ==
    /\ advance("explain_decision")
    /\ dicts' = dicts @@ (<<"trace", Len(traces) + 1>> :> FieldOf(cur))
    /\ traces' = Append(traces, explain_decision_entry(cur, output))
    /\ last' = Returned("explain_decision", cur, Len(traces) + 1)
    /\ UNCHANGED <<thread_vars, records, active_agents, spawned, dissolved_residues, memory_state,
                   snapshots, history, chain, evaluations, obs, cur, cur_agent, output,
                   backend_vars, pair_pc, pair_start, pair_done>>

stage_evaluate ==
    /\ advance("evaluate")
    /\ evaluations' = Append(evaluations, evaluate_result(cur))
    /\ last' = Returned("evaluate", cur, evaluate_result(cur))
    /\ UNCHANGED <<thread_vars, records, dicts, active_agents, spawned, dissolved_residues,
                   memory_state, snapshots, traces, history, chain, obs, cur, cur_agent,
                   output, backend_vars, pair_pc, pair_start, pair_done>>

stage_explore ==
    /\ advance("explore")
    /\ last' = Returned("explore", cur, explore_result(cur))
    /\ UNCHANGED <<thread_vars, records, dicts, active_agents, spawned, dissolved_residues,
                   memory_state, snapshots, traces, history, chain, evaluations, obs,
                   cur, cur_agent, output, backend_vars, pair_pc, pair_start, pair_done>>

stage_memory_update ==
    /\ advance("memory_update")
    /\ do_memory_update(cur)
    /\ last' = Returned("memory_update", cur, None)
    /\ UNCHANGED <<thread_vars, records, active_agents, spawned, dissolved_residues, traces, history,
                   chain, evaluations, obs, cur, cur_agent, output,
                   backend_vars, pair_pc, pair_start, pair_done>>

\* lineage.track(memory.state)
stage_lineage_track ==
    /\ advance("lineage_track")
    /\ chain' = Append(chain, lineage_entry(memory_state, Len(chain)))
    /\ last' = Returned("lineage_track", None, Len(chain) + 1)
    /\ UNCHANGED <<thread_vars, records, dicts, active_agents, spawned, dissolved_residues,
                   memory_state, snapshots, traces, history, evaluations, obs, cur,
                   cur_agent, output, backend_vars, pair_pc, pair_start, pair_done>>

\* feedback.apply(memory.state, awareness)
stage_feedback_apply ==
    /\ advance("feedback_apply")
    /\ memory_state' = feedback_apply(memory_state, cur)
    /\ last' = Returned("feedback_apply", cur, None)
    /\ UNCHANGED <<thread_vars, records, dicts, active_agents, spawned, dissolved_residues, snapshots,
                   traces, history, chain, evaluations, obs, cur, cur_agent, output,
                   backend_vars, pair_pc, pair_start, pair_done>>

stage_history_append ==
    /\ advance("history_append")
    /\ history' = Append(history, cur)
    /\ last' = Returned("history_append", cur, None)
    /\ UNCHANGED <<thread_vars, records, dicts, active_agents, spawned, dissolved_residues,
                   memory_state, snapshots, traces, chain, evaluations, obs, cur,
                   cur_agent, output, backend_vars, pair_pc, pair_start, pair_done>>

stage_dissolve ==
    /\ pc = "dissolve"
    /\ LET out == agent_dissolve(spawned[cur_agent])
       IN  /\ spawned' = [spawned EXCEPT ![cur_agent] = out.agent]
           /\ dicts' = dicts @@ out.allocated
           /\ IF out.exc = "none"
              THEN /\ advance("dissolve")
                   /\ dissolved_residues' = Append(dissolved_residues, out.residue)
                   /\ last' = Returned("dissolve", cur_agent, Len(dissolved_residues) + 1)
              ELSE /\ reject("dissolve")
                   /\ dissolved_residues' = dissolved_residues
                   /\ last' = Raised("dissolve", cur_agent, out.exc, "NoneType")
    /\ UNCHANGED <<thread_vars, records, active_agents, memory_state, snapshots, traces, history,
                   chain, evaluations, obs, cur, cur_agent, output,
                   backend_vars, pair_pc, pair_start, pair_done>>

stage_register_dissolution ==
    /\ advance("register_dissolution")
    /\ active_agents' = register_dissolution_step(active_agents)
    /\ last' = Returned("register_dissolution", active_agents, None)
    /\ UNCHANGED <<thread_vars, records, dicts, spawned, dissolved_residues, memory_state, snapshots,
                   traces, history, chain, evaluations, obs, cur, cur_agent, output,
                   backend_vars, pair_pc, pair_start, pair_done>>

stage_assess ==
    /\ advance("assess")
    /\ last' = Returned("assess", history, assess_result(history))
    /\ UNCHANGED <<thread_vars, records, dicts, active_agents, spawned, dissolved_residues,
                   memory_state, snapshots, traces, history, chain, evaluations, obs,
                   cur, cur_agent, output, backend_vars, pair_pc, pair_start, pair_done>>

(* Inputs of the pipeline specification *)

MaxCycles == 2

\* The three observations of the example, an empty one, one that the
\* invariant gate refuses and one with values above 1.
PipeObservations ==
    { [k \in {"confidence", "novelty", "complexity", "coherence"} |->
          CASE k = "confidence" -> 4500 [] k = "novelty" -> 8000
            [] k = "complexity" -> 7000 [] k = "coherence" -> 6000],
      [k \in {"confidence", "novelty", "complexity", "coherence"} |->
          CASE k = "confidence" -> 8500 [] k = "novelty" -> 3000
            [] k = "complexity" -> 4000 [] k = "coherence" -> 9000],
      [k \in {"confidence", "novelty", "complexity", "coherence"} |->
          CASE k = "confidence" -> 3000 [] k = "novelty" -> 9000
            [] k = "complexity" -> 8500 [] k = "coherence" -> 3500],
      EmptyDict,
      [k \in {"coherence"} |-> 1000],
      [k \in {"confidence", "coherence"} |->
          CASE k = "confidence" -> 20000 [] k = "coherence" -> 20000] }

(* Inputs of the depth specification: a run of more observations than the *)
(* recursion ceiling admits                                                *)

MaxObservations == 7

DepthObservations ==
    { [k \in {"confidence", "novelty", "complexity", "coherence"} |->
          CASE k = "confidence" -> 4500 [] k = "novelty" -> 8000
            [] k = "complexity" -> 7000 [] k = "coherence" -> 6000],
      EmptyDict }

(* Inputs of the range specification: every observation has its coherence  *)
(* and its confidence in [0,1]                                             *)

RangeCycles == 2

RangeValues == {0, MIN_COHERENCE, 5000, Unit}

RangeObservations ==
    { [k \in {"confidence", "coherence"} |-> IF k = "confidence" THEN x ELSE y] :
          x \in RangeValues, y \in RangeValues }

----------------------------------------------------------------------------
(* The completion backend: src/core/llm; EmergentAgent.act with a backend  *)

\* LLMConfig.enabled
enabled(provider) == provider # "none"

\* LLMAdapter.complete: what it returns for each way the transport can end.
\* "text" is a reply that holds the expected key, "error_reply" a JSON object
\* without it, "exception" anything raised inside the transport (curl
\* missing, no reply, a reply that is not JSON).
complete(provider, outcome) ==
    IF ~enabled(provider) THEN ""
    ELSE IF provider = "ollama"
         THEN CASE outcome = "text" -> "text"
                [] outcome = "error_reply" -> ""
                [] outcome = "exception" -> "[ollama unavailable]"
    ELSE IF provider = "anthropic"
         THEN CASE outcome = "text" -> "text"
                [] outcome = "error_reply" -> ""
                [] outcome = "exception" -> "[anthropic unavailable]"
    ELSE IF provider = "openai"
         THEN CASE outcome = "text" -> "text"
                [] outcome = "error_reply" -> ""
                [] outcome = "exception" -> "[openai unavailable]"
    ELSE ""

\* EmergentAgent.act of an agent spawned by a generator that holds the
\* backend: with the backend enabled it awaits complete once and adds the
\* response to the output.
act_with_backend_output(agent, context_keys, provider, outcome) ==
    IF agent.awareness = None
    THEN [exc |-> "AttributeError", output |-> None, completions |-> 0]
    ELSE IF enabled(provider)
    THEN [exc |-> "none",
          output |-> [awareness_field |-> records[agent.awareness].field,
                      context_keys |-> context_keys,
                      llm_response |-> complete(provider, outcome)],
          completions |-> 1]
    ELSE [exc |-> "none",
          output |-> [awareness_field |-> records[agent.awareness].field,
                      context_keys |-> context_keys],
          completions |-> 0]

act_with_backend(a, context_keys, outcome) ==
    /\ LET out == act_with_backend_output(spawned[a], context_keys, llm, outcome)
       IN  /\ requests' = requests + out.completions
           /\ last' = IF out.exc = "none"
                      THEN Returned("act_with_backend", <<a, outcome>>, out.output)
                      ELSE Raised("act_with_backend", <<a, outcome>>, out.exc, "NoneType")
    /\ UNCHANGED <<thread_vars, pipeline_vars, llm, records, dicts, active_agents, spawned,
                   dissolved_residues, memory_state, snapshots, traces,
                   pair_pc, pair_start, pair_done>>

\* AgentGeneration(llm=LLMAdapter(LLMConfig(provider))): the generator is
\* built with a backend, before it spawns anything.
configure_backend(provider) ==
    /\ llm = "none"
    /\ spawned = <<>>
    /\ llm' = provider
    /\ last' = Returned("AgentGeneration", provider, None)
    /\ UNCHANGED <<thread_vars, pipeline_vars, requests, records, dicts, active_agents, spawned,
                   dissolved_residues, memory_state, snapshots, traces,
                   pair_pc, pair_start, pair_done>>

(* Inputs of the backend specification *)

BackendRecords == 1
BackendSpawned == 1
MaxRequests == 3

Providers == {"ollama", "anthropic", "openai", "custom"}
BackendOutcomes == {"text", "error_reply", "exception"}

----------------------------------------------------------------------------
(* Threads that call Invariants.register_spawn on one Invariants object.   *)
(* Nothing in the class takes a lock: a thread can be preempted between    *)
(* any two reads or writes of self.active_agents, so `+= 1` and `-= 1` are *)
(* each a read followed by a write.                                        *)

Threads == {"t1", "t2"}

\* calls are started while the counter and the count of successes are below this
MaxThreadCount == 22

\* self.active_agents += 1, the read
thread_read_increment(t) ==
    /\ thread_pc[t] = "idle"
    /\ thread_seen' = [thread_seen EXCEPT ![t] = active_agents]
    /\ thread_pc' = [thread_pc EXCEPT ![t] = "write_increment"]
    /\ UNCHANGED <<pipeline_vars, backend_vars, granted, records, dicts, active_agents,
                   spawned, dissolved_residues, memory_state, snapshots, traces, last,
                   pair_pc, pair_start, pair_done>>

\* self.active_agents += 1, the write
thread_write_increment(t) ==
    /\ thread_pc[t] = "write_increment"
    /\ active_agents' = thread_seen[t] + 1
    /\ thread_pc' = [thread_pc EXCEPT ![t] = "check"]
    /\ UNCHANGED <<pipeline_vars, backend_vars, thread_seen, granted, records, dicts,
                   spawned, dissolved_residues, memory_state, snapshots, traces, last,
                   pair_pc, pair_start, pair_done>>

\* if self.active_agents > self.MAX_AGENTS: otherwise the call returns
thread_check(t) ==
    /\ thread_pc[t] = "check"
    /\ IF active_agents > MAX_AGENTS
       THEN /\ thread_pc' = [thread_pc EXCEPT ![t] = "read_rollback"]
            /\ UNCHANGED <<granted, last>>
       ELSE /\ thread_pc' = [thread_pc EXCEPT ![t] = "idle"]
            /\ granted' = granted + 1
            /\ last' = Returned("register_spawn", t, None)
    /\ UNCHANGED <<pipeline_vars, backend_vars, thread_seen, records, dicts, active_agents,
                   spawned, dissolved_residues, memory_state, snapshots, traces,
                   pair_pc, pair_start, pair_done>>

\* self.active_agents -= 1, the read
thread_read_rollback(t) ==
    /\ thread_pc[t] = "read_rollback"
    /\ thread_seen' = [thread_seen EXCEPT ![t] = active_agents]
    /\ thread_pc' = [thread_pc EXCEPT ![t] = "write_rollback"]
    /\ UNCHANGED <<pipeline_vars, backend_vars, granted, records, dicts, active_agents,
                   spawned, dissolved_residues, memory_state, snapshots, traces, last,
                   pair_pc, pair_start, pair_done>>

\* self.active_agents -= 1, the write, and the raise
thread_write_rollback(t) ==
    /\ thread_pc[t] = "write_rollback"
    /\ active_agents' = thread_seen[t] - 1
    /\ thread_pc' = [thread_pc EXCEPT ![t] = "idle"]
    /\ last' = Raised("register_spawn", t, "InvariantViolation", "agent_population_exceeded")
    /\ UNCHANGED <<pipeline_vars, backend_vars, thread_seen, granted, records, dicts,
                   spawned, dissolved_residues, memory_state, snapshots, traces,
                   pair_pc, pair_start, pair_done>>

----------------------------------------------------------------------------
(* Inputs of the lifecycle specification *)

LifeCoherence == {6000}
LifeUncertainty == {1000}
LifeFields == { [k \in {"risk"} |-> 700] }
LifeContexts == { <<"coherence", "confidence">> }

(* Inputs of the aliasing specification *)
AliasCoherence == {3000, 9000}
AliasKeys == {"risk"}
AliasValues == {4200}

\* The caller builds a record.
life_record(c, u, f) ==
    /\ new_record(c, u, f)
    /\ last' = Returned("AwarenessState", None, Len(records) + 1)
    /\ UNCHANGED <<thread_vars, pipeline_vars, backend_vars, active_agents, spawned, dissolved_residues,
                   memory_state, snapshots, traces, pair_pc, pair_start, pair_done>>

----------------------------------------------------------------------------
Init ==
    /\ records = <<>>
    /\ dicts = EmptyDict
    /\ active_agents = 0
    /\ spawned = <<>>
    /\ dissolved_residues = <<>>
    /\ memory_state = EmptyDict
    /\ snapshots = <<>>
    /\ traces = <<>>
    /\ last = Returned("init", None, None)
    /\ pair_pc = "idle"
    /\ pair_start = 0
    /\ pair_done = 0
    /\ history = <<>>
    /\ chain = <<>>
    /\ evaluations = <<>>
    /\ pc = "generate"
    /\ obs = None
    /\ cur = None
    /\ cur_agent = None
    /\ output = None
    /\ stages = <<>>
    /\ llm = "none"
    /\ requests = 0
    /\ thread_pc = [t \in Threads |-> "idle"]
    /\ thread_seen = [t \in Threads |-> 0]
    /\ granted = 0

EnforceCall == \E r \in DOMAIN records, depth \in 0..DepthBound : enforce(r, depth)
ValidateCall == \E r \in DOMAIN records : validate(r)
GateRecordCall ==
    \E c \in GateCoherence, u \in GateUncertainty, f \in GateFields : gate_record(c, u, f)

NextGate ==
    \/ GateRecordCall
    \/ EnforceCall
    \/ ValidateCall
    \/ register_spawn
    \/ register_dissolution
    \/ begin_pairs
    \/ pair_register_spawn
    \/ pair_register_dissolution
    \/ end_pairs

SpecGate == Init /\ [][NextGate]_vars

LifeRecordCall ==
    /\ Len(records) < MaxRecords
    /\ \E c \in LifeCoherence, u \in LifeUncertainty, f \in LifeFields : life_record(c, u, f)
SpawnCall == Len(spawned) < MaxSpawned /\ \E r \in DOMAIN records : spawn(r)
RunSpawnCall == Len(spawned) < MaxSpawned /\ \E r \in DOMAIN records : run_spawn(r)
ActCall == \E a \in DOMAIN spawned, ctx \in LifeContexts : act(a, ctx)
DissolveCall == \E a \in DOMAIN spawned : dissolve(a)
RunDissolveCall == \E a \in DOMAIN spawned : run_dissolve(a)

NextLife ==
    \/ LifeRecordCall
    \/ SpawnCall
    \/ RunSpawnCall
    \/ ActCall
    \/ DissolveCall
    \/ RunDissolveCall

SpecLife == Init /\ [][NextLife]_vars

AliasRecordCall ==
    /\ Len(records) < AliasRecords
    /\ \E c \in AliasCoherence, u \in LifeUncertainty, f \in LifeFields : life_record(c, u, f)
AliasSpawnCall == Len(spawned) < AliasSpawned /\ \E r \in DOMAIN records : spawn(r)
MutateResidueCall ==
    \E i \in DOMAIN dissolved_residues, k \in AliasKeys, v \in AliasValues :
        mutate_residue(i, k, v)
MemoryUpdateCall == Len(snapshots) < MaxSnapshots /\ \E r \in DOMAIN records : memory_update(r)
ExplainCall == Len(traces) < MaxTraces /\ \E r \in DOMAIN records : explain(r)

NextAlias ==
    \/ AliasRecordCall
    \/ AliasSpawnCall
    \/ DissolveCall
    \/ MutateResidueCall
    \/ MemoryUpdateCall
    \/ ExplainCall

SpecAlias == Init /\ [][NextAlias]_vars

HistoryRecordCall ==
    /\ Len(history) < MaxHistory
    /\ \E c \in HistoryCoherence, u \in LifeUncertainty, f \in HistoryFields :
           history_record(c, u, f)

NextContinuity ==
    \/ HistoryRecordCall
    \/ assess

SpecContinuity == Init /\ [][NextContinuity]_vars

ExploreRecordCall ==
    /\ Len(records) < ExploreRecords
    /\ \E c \in ExploreCoherence, u \in ExploreUncertainty, f \in ExploreFields :
           life_record(c, u, f)
ExploreCall == \E r \in DOMAIN records : explore(r)

NextExplore ==
    \/ ExploreRecordCall
    \/ ExploreCall

SpecExplore == Init /\ [][NextExplore]_vars

GenerateCall ==
    /\ Len(history) < MaxCycles
    /\ \E o \in PipeObservations : stage_generate(o)

NextPipe ==
    \/ GenerateCall
    \/ stage_reflect
    \/ stage_regulate
    \/ stage_enforce
    \/ stage_validate
    \/ stage_register_spawn
    \/ stage_spawn
    \/ stage_act
    \/ stage_explain_decision
    \/ stage_evaluate
    \/ stage_explore
    \/ stage_memory_update
    \/ stage_lineage_track
    \/ stage_feedback_apply
    \/ stage_history_append
    \/ stage_dissolve
    \/ stage_register_dissolution
    \/ stage_assess

SpecPipe == Init /\ [][NextPipe]_vars

ConfigureBackendCall == \E p \in Providers : configure_backend(p)
BackendRecordCall ==
    /\ Len(records) < BackendRecords
    /\ \E c \in LifeCoherence, u \in LifeUncertainty, f \in LifeFields : life_record(c, u, f)
BackendSpawnCall == Len(spawned) < BackendSpawned /\ \E r \in DOMAIN records : spawn(r)
ActWithBackendCall ==
    /\ requests < MaxRequests
    /\ \E a \in DOMAIN spawned, ctx \in LifeContexts, outcome \in BackendOutcomes :
           act_with_backend(a, ctx, outcome)

NextBackend ==
    \/ ConfigureBackendCall
    \/ BackendRecordCall
    \/ BackendSpawnCall
    \/ ActWithBackendCall
    \/ DissolveCall

SpecBackend == Init /\ [][NextBackend]_vars

DepthGenerateCall ==
    /\ Len(records) < MaxObservations
    /\ \E o \in DepthObservations : stage_generate(o)

NextDepth ==
    \/ DepthGenerateCall
    \/ stage_reflect
    \/ stage_regulate
    \/ stage_enforce
    \/ stage_validate
    \/ stage_register_spawn
    \/ stage_spawn
    \/ stage_act
    \/ stage_explain_decision
    \/ stage_evaluate
    \/ stage_explore
    \/ stage_memory_update
    \/ stage_lineage_track
    \/ stage_feedback_apply
    \/ stage_history_append
    \/ stage_dissolve
    \/ stage_register_dissolution
    \/ stage_assess

SpecDepth == Init /\ [][NextDepth]_vars

RangeGenerateCall ==
    /\ Len(history) < RangeCycles
    /\ \E o \in RangeObservations : stage_generate(o)

NextRange ==
    \/ RangeGenerateCall
    \/ stage_reflect
    \/ stage_regulate
    \/ stage_enforce
    \/ stage_validate
    \/ stage_register_spawn
    \/ stage_spawn
    \/ stage_act
    \/ stage_explain_decision
    \/ stage_evaluate
    \/ stage_explore
    \/ stage_memory_update
    \/ stage_lineage_track
    \/ stage_feedback_apply
    \/ stage_history_append
    \/ stage_dissolve
    \/ stage_register_dissolution
    \/ stage_assess

SpecRange == Init /\ [][NextRange]_vars

ThreadCall ==
    /\ granted < MaxThreadCount
    /\ active_agents < MaxThreadCount
    /\ \E t \in Threads : thread_read_increment(t)
ThreadWriteIncrement == \E t \in Threads : thread_write_increment(t)
ThreadCheck == \E t \in Threads : thread_check(t)
ThreadReadRollback == \E t \in Threads : thread_read_rollback(t)
ThreadWriteRollback == \E t \in Threads : thread_write_rollback(t)

NextThreads ==
    \/ ThreadCall
    \/ ThreadWriteIncrement
    \/ ThreadCheck
    \/ ThreadReadRollback
    \/ ThreadWriteRollback

SpecThreads == Init /\ [][NextThreads]_vars

----------------------------------------------------------------------------
(* Claims about the gates, checked under SpecGate *)

\* C1: for every record with coherence and uncertainty in [0,1], every depth
\* >= 0 and every counter value, enforce returns without raising if and only
\* if uncertainty <= 0.85, coherence >= 0.15, depth <= 5 and active_agents <
\* 20; in every other case it raises InvariantViolation.
C1_EnforceAcceptsIff ==
    last.op = "enforce" =>
        LET rec == records[last.arg[1]]
            depth == last.arg[2]
            agents == last.arg[3]
            ok == /\ rec.uncertainty <= 8500
                  /\ rec.coherence >= 1500
                  /\ depth <= 5
                  /\ agents < 20
        IN  /\ ok => last.exc = "none"
            /\ ~ok => last.exc = "InvariantViolation"

\* enforce accepted at every boundary at once.
C1_Witness ==
    /\ last.op = "enforce"
    /\ last.exc = "none"
    /\ records[last.arg[1]].uncertainty = 8500
    /\ records[last.arg[1]].coherence = 1500
    /\ last.arg[2] = 5
    /\ last.arg[3] = 19

\* C2: after any sequence of register_spawn and register_dissolution calls,
\* failing spawns and dissolutions at zero included, with enforce calls
\* interleaved, 0 <= active_agents <= MAX_AGENTS (20) between calls, and
\* enforce never changes active_agents.
C2_CounterInRange ==
    /\ [](active_agents >= 0 /\ active_agents <= 20)
    /\ [][EnforceCall => active_agents' = active_agents]_vars

\* enforce ran against a full population.
C2_Witness ==
    /\ last.op = "enforce"
    /\ last.msg = "agent_population_exceeded"
    /\ active_agents = 20

\* C3: register_spawn at active_agents = MAX_AGENTS raises
\* InvariantViolation("agent_population_exceeded") and leaves active_agents as
\* it was before the call; below MAX_AGENTS it does not fail and adds exactly 1.
C3_RegisterSpawnContract ==
    [][(register_spawn \/ pair_register_spawn) =>
          IF active_agents = 20
          THEN /\ active_agents' = active_agents
               /\ last'.exc = "InvariantViolation"
               /\ last'.msg = "agent_population_exceeded"
          ELSE /\ active_agents' = active_agents + 1
               /\ last'.exc = "none"]_vars

\* register_spawn was refused at capacity.
C3_Witness ==
    /\ last.op = "register_spawn"
    /\ last.arg = 20
    /\ last.exc = "InvariantViolation"
    /\ active_agents = 20

\* C4 as stated: for every start s in 0..MAX_AGENTS and every N >= 0, N pairs
\* (register_spawn, then immediately register_dissolution) leave
\* active_agents equal to s.
C4_PairsRestoreAnyStart ==
    pair_pc = "spawn" => active_agents = pair_start

\* C4 as amended: the pairs leave active_agents at s for every start s in
\* 0..MAX_AGENTS-1; from s = MAX_AGENTS the first register_spawn is refused
\* and rolled back, so the dissolution that follows it leaves MAX_AGENTS - 1,
\* where every later pair leaves it.
C4_PairsRestoreBelowCapacity ==
    pair_pc = "spawn" =>
        IF pair_start < 20
        THEN active_agents = pair_start
        ELSE active_agents = (IF pair_done = 0 THEN 20 ELSE 19)

\* Several pairs were run from the highest start that they restore.
C4_Witness ==
    /\ pair_pc = "spawn"
    /\ pair_done >= 2
    /\ pair_start = 19
    /\ active_agents = 19

\* C5: when enforce violates more than one rule, the InvariantViolation names
\* the first violated rule in the order uncertainty_exceeded,
\* recursion_exceeded, coherence_collapsed, agent_population_exceeded.
C5_FirstViolatedRule ==
    last.op = "enforce" =>
        LET rec == records[last.arg[1]]
            depth == last.arg[2]
            agents == last.arg[3]
            v1 == rec.uncertainty > 8500
            v2 == depth > 5
            v3 == rec.coherence < 1500
            v4 == agents >= 20
        IN  /\ v1 => last.msg = "uncertainty_exceeded"
            /\ ~v1 /\ v2 => last.msg = "recursion_exceeded"
            /\ ~v1 /\ ~v2 /\ v3 => last.msg = "coherence_collapsed"
            /\ ~v1 /\ ~v2 /\ ~v3 /\ v4 => last.msg = "agent_population_exceeded"

\* Depth, coherence and population were violated together.
C5_Witness ==
    /\ last.op = "enforce"
    /\ records[last.arg[1]].uncertainty <= 8500
    /\ last.arg[2] > 5
    /\ records[last.arg[1]].coherence < 1500
    /\ last.arg[3] >= 20
    /\ last.msg = "recursion_exceeded"

\* C6: validate fails with action_from_zero_coherence if coherence <= 0, with
\* action_from_total_uncertainty if uncertainty >= 1.0, with
\* unstable_high_risk_action if field.risk > 0.9 and field.stability < 0.1
\* (stability 1.0 when the key is absent), the conditions taken in that order
\* when several hold; it returns True, the record unchanged, exactly when none
\* of the three holds.
C6_ValidateContract ==
    /\ [](last.op = "validate" =>
            LET rec == records[last.arg]
                f == dicts[rec.field]
                zero == rec.coherence <= 0
                total == rec.uncertainty >= 10000
                risky == /\ (IF "risk" \in DOMAIN f THEN f["risk"] ELSE 0) > 9000
                         /\ (IF "stability" \in DOMAIN f THEN f["stability"] ELSE 10000) < 1000
            IN  /\ zero => last.msg = "action_from_zero_coherence"
                /\ ~zero /\ total => last.msg = "action_from_total_uncertainty"
                /\ ~zero /\ ~total /\ risky => last.msg = "unstable_high_risk_action"
                /\ (zero \/ total \/ risky) => last.exc = "EthicsViolation"
                /\ ~(zero \/ total \/ risky) => last.exc = "none" /\ last.ret = TRUE)
    /\ [][ValidateCall => UNCHANGED <<records, dicts>>]_vars

\* validate accepted a high-risk record whose field has no stability key.
C6_Witness ==
    /\ last.op = "validate"
    /\ last.exc = "none"
    /\ last.ret = TRUE
    /\ "risk" \in DOMAIN dicts[records[last.arg].field]
    /\ dicts[records[last.arg].field]["risk"] > 9000
    /\ "stability" \notin DOMAIN dicts[records[last.arg].field]

----------------------------------------------------------------------------
(* Claims about the agent lifecycle, checked under SpecLife *)

\* C7: spawn(record) reserves population capacity itself: it first performs
\* register_spawn, and if that would push active_agents over MAX_AGENTS the
\* call fails with agent_population_exceeded, creates no agent and leaves the
\* counter and the spawned-list unchanged; otherwise exactly one new live
\* agent bound to record is appended and active_agents grows by 1. So the
\* number of live agents in the spawned-list never exceeds MAX_AGENTS.
C7_SpawnReservesCapacity ==
    /\ [][\A r \in DOMAIN records :
            spawn(r) =>
                IF active_agents >= 20
                THEN /\ last'.exc = "InvariantViolation"
                     /\ last'.msg = "agent_population_exceeded"
                     /\ spawned' = spawned
                     /\ active_agents' = active_agents
                ELSE /\ spawned' = Append(spawned, [awareness |-> r, alive |-> TRUE])
                     /\ active_agents' = active_agents + 1]_vars
    /\ [](Cardinality(generation_active_agents) <= 20)

\* C8: dissolve(agent) on a live agent clears its liveness flag, releases its
\* record, appends exactly one residue to the dissolution history, and
\* performs register_dissolution, so that active_agents decreases by exactly
\* 1 (floored at 0) as part of the same operation.
C8_DissolveReleasesCapacity ==
    [][\A a \in DOMAIN spawned :
          (dissolve(a) /\ spawned[a].alive) =>
              /\ ~spawned'[a].alive
              /\ spawned'[a].awareness = None
              /\ Len(dissolved_residues') = Len(dissolved_residues) + 1
              /\ active_agents' = (IF active_agents > 0 THEN active_agents - 1 ELSE 0)]_vars

\* C9: dissolved is terminal: once an agent's liveness flag is false no spawn,
\* act or dissolve makes it true again, and a dissolved agent never produces
\* an act output.
C9_DissolvedIsTerminal ==
    /\ [][\A a \in DOMAIN spawned :
            ~spawned[a].alive => (a \in DOMAIN spawned' /\ ~spawned'[a].alive)]_vars
    /\ []((last.op = "act" /\ last.exc = "none") => spawned[last.arg].alive)

\* act was called on a dissolved agent and produced no output.
C9_Witness ==
    /\ last.op = "act"
    /\ last.exc = "AttributeError"
    /\ ~spawned[last.arg].alive
    /\ Len(dissolved_residues) >= 1

\* C11: a record is owned exclusively by one agent for that agent's lifetime:
\* no two live agents in the spawned-list are bound to the same record, for
\* any sequence of spawn and dissolve calls, spawn called twice with the same
\* record included.
C11_ExclusiveOwnership ==
    \A a, b \in DOMAIN spawned :
        (a # b /\ spawned[a].alive /\ spawned[b].alive)
            => spawned[a].awareness # spawned[b].awareness

\* C30: dissolving an agent that has already been dissolved fails with an
\* error instead of producing a second residue: the dissolution history and
\* total_dissolved() are unchanged by the failed call, last_residue() still
\* returns the residue it returned before, and the agent remains dead.
C30_SecondDissolveFails ==
    [][\A a \in DOMAIN spawned :
          (dissolve(a) /\ ~spawned[a].alive) =>
              /\ last'.exc = "AttributeError"
              /\ dissolved_residues' = dissolved_residues
              /\ Len(dissolved_residues') = total_dissolved
              /\ dissolved_residues'[Len(dissolved_residues')] = last_residue
              /\ ~spawned'[a].alive]_vars

\* A second dissolve of the same agent failed and left the one residue.
C30_Witness ==
    /\ last.op = "dissolve"
    /\ last.exc = "AttributeError"
    /\ ~spawned[last.arg].alive
    /\ Len(dissolved_residues) = 1
    /\ Len(spawned) = 1

----------------------------------------------------------------------------
(* Claims about the residue, checked under SpecAlias *)

\* The dicts that anything but residue i refers to.
DictsHeldApartFrom(i) ==
    {records[r].field : r \in DOMAIN records}
        \cup {snapshots[j].field : j \in DOMAIN snapshots}
        \cup {traces[j].field : j \in DOMAIN traces}
        \cup (IF "field" \in DOMAIN memory_state THEN {memory_state["field"]} ELSE {})
        \cup {dissolved_residues[j].final_field : j \in DOMAIN dissolved_residues \ {i}}

\* C10: dissolving the agent spawned with record R yields a residue with
\* final_coherence = R.coherence, final_uncertainty = R.uncertainty and
\* final_field equal in content to R.field; final_field is a copy, not an
\* alias: changing the residue afterwards changes neither R.field nor any
\* other record, Memory snapshot or trace entry.
C10_ResidueRoundTrip ==
    /\ [][\A a \in DOMAIN spawned :
            (dissolve(a) /\ spawned[a].awareness # None) =>
                LET R == records[spawned[a].awareness]
                    res == dissolved_residues'[Len(dissolved_residues')]
                IN  /\ Len(dissolved_residues') = Len(dissolved_residues) + 1
                    /\ res.final_coherence = R.coherence
                    /\ res.final_uncertainty = R.uncertainty
                    /\ dicts'[res.final_field] = dicts[R.field]
                    /\ dicts'[R.field] = dicts[R.field]]_vars
    /\ [](\A i \in DOMAIN dissolved_residues :
            dissolved_residues[i].final_field \notin DictsHeldApartFrom(i))
    /\ [][MutateResidueCall =>
            /\ records' = records
            /\ snapshots' = snapshots
            /\ traces' = traces
            /\ memory_state' = memory_state
            /\ \A i \in DOMAIN dissolved_residues :
                  \A d \in DictsHeldApartFrom(i) :
                      (dicts'[dissolved_residues[i].final_field] #
                           dicts[dissolved_residues[i].final_field])
                          => dicts'[d] = dicts[d]]_vars

\* A residue was changed after dissolution and now differs from the field of
\* the record it was taken from, with a snapshot and a trace entry present.
C10_Witness ==
    /\ last.op = "mutate_residue"
    /\ Len(snapshots) >= 1
    /\ \E r \in DOMAIN records :
          /\ dissolved_residues[last.arg].final_coherence = records[r].coherence
          /\ dicts[dissolved_residues[last.arg].final_field] # dicts[records[r].field]
          /\ dicts[records[r].field] = [k \in {"risk"} |-> 700]

----------------------------------------------------------------------------
(* Claims about the pipeline, checked under SpecPipe *)

\* The order C12 gives the stages; the three audit calls share one place.
ClaimedOrder ==
    <<{"generate"}, {"reflect"}, {"regulate"}, {"enforce"}, {"validate"},
      {"spawn"}, {"act"}, {"explain_decision", "evaluate", "explore"},
      {"memory_update"}, {"lineage_track"}, {"feedback_apply"},
      {"dissolve"}, {"assess"}>>

\* The current cycle has performed stage s; the place of s among its stages.
StageRan(s) == \E i \in DOMAIN stages : stages[i] = s

StagePlace(s) == CHOOSE i \in DOMAIN stages : stages[i] = s

\* C12: for every observation the orchestrator accepts, the stages run in the
\* strict order generate, reflect, regulate, enforce, validate, spawn, act,
\* explain/evaluate/explore, Memory.update, Lineage.track, Feedback.apply,
\* dissolve, Continuity.assess; no stage of the next observation starts
\* before the previous observation's dissolve; in each cycle the agent acts
\* exactly once and is dissolved exactly once, and Memory is updated exactly
\* once, after both gates and before the dissolution.
C12_StagesInStrictOrder ==
    /\ [](\A i, j \in DOMAIN stages : stages[i] = stages[j] => i = j)
    /\ [](\A m, n \in DOMAIN ClaimedOrder :
            m < n => \A a \in ClaimedOrder[m], b \in ClaimedOrder[n] :
                        StageRan(b) => (StageRan(a) /\ StagePlace(a) < StagePlace(b)))
    /\ []((pc = "generate" /\ stages # <<>>) =>
            /\ \A n \in DOMAIN ClaimedOrder : \A s \in ClaimedOrder[n] : StageRan(s)
            /\ Len(spawned) = Len(history)
            /\ Len(snapshots) = Len(history)
            /\ Len(dissolved_residues) = Len(history)
            /\ ~spawned[cur_agent].alive)
    /\ [][(\E o \in PipeObservations : stage_generate(o)) =>
            (stages = <<>> \/ StageRan("dissolve"))]_vars
    /\ [][/\ snapshots' # snapshots =>
               (pc = "memory_update" /\ Len(snapshots') = Len(snapshots) + 1)
          /\ dissolved_residues' # dissolved_residues =>
               (pc = "dissolve" /\ Len(dissolved_residues') = Len(dissolved_residues) + 1)
          /\ Len(spawned') # Len(spawned) =>
               (pc = "spawn" /\ Len(spawned') = Len(spawned) + 1)]_vars

\* The orchestrator completed its second cycle.
C12_Witness ==
    /\ pc = "generate"
    /\ Len(history) = 2
    /\ Len(stages) = 18
    /\ Len(snapshots) = 2
    /\ Len(dissolved_residues) = 2

\* C13: in every pipeline cycle, the feedback_delta written by Feedback.apply
\* equals the current record's coherence minus the coherence Memory held
\* before this cycle's Memory.update (with no earlier update, the record's
\* own coherence, so that the delta is 0).
C13_FeedbackReadsPreUpdateMemory ==
    last.op = "feedback_apply" =>
        memory_state["feedback_delta"] =
            records[cur].coherence -
                (IF Len(snapshots) >= 2
                 THEN snapshots[Len(snapshots) - 1].coherence
                 ELSE records[cur].coherence)

\* C14: when enforce or validate rejects a record, the violation reaches the
\* orchestrating caller with no retry or recovery, and the rejected cycle
\* performs none of the later stages: active_agents, the spawned-list, the
\* dissolution history, Memory (state and snapshots), Lineage, the trace, the
\* evaluations and the history are as they were before the observation was
\* taken.
C14_RejectionEndsTheRun ==
    /\ [][(pc \in {"generate", "reflect", "regulate", "enforce", "validate"}) =>
            (/\ UNCHANGED <<active_agents, spawned, dissolved_residues>>
             /\ UNCHANGED <<memory_state, snapshots, chain>>
             /\ UNCHANGED <<traces, evaluations, history>>)]_vars
    /\ [](last.exc \in {"InvariantViolation", "EthicsViolation"} =>
            /\ pc = "aborted"
            /\ last.op \in {"enforce", "validate"}
            /\ stages[Len(stages)] = last.op)
    /\ [][pc # "aborted"]_vars

\* The ethics gate rejected the record of the second observation.
C14_Witness ==
    /\ pc = "aborted"
    /\ last.op = "validate"
    /\ last.exc = "EthicsViolation"
    /\ Len(history) = 1
    /\ Len(spawned) = 1
    /\ Len(snapshots) = 1

\* C15: every record the Field Generator produces, for any observation
\* (coherence or confidence outside [0,1] included), has coherence in [0,1]
\* and uncertainty in [0,1]; hence so has every record archived in history.
C15_GeneratedRecordsInRange ==
    /\ \A r \in DOMAIN records :
          /\ 0 <= records[r].coherence /\ records[r].coherence <= 10000
          /\ 0 <= records[r].uncertainty /\ records[r].uncertainty <= 10000
    /\ \A i \in DOMAIN history :
          /\ 0 <= records[history[i]].coherence /\ records[history[i]].coherence <= 10000
          /\ 0 <= records[history[i]].uncertainty /\ records[history[i]].uncertainty <= 10000

\* C16: from empty memory, empty history and active_agents = 0, the
\* observation {confidence 0.45, novelty 0.8, complexity 0.7, coherence 0.6}
\* yields a record with uncertainty 0.55, field.novelty 0.36, field.complexity
\* 0.42, field.risk 0.22, field.memory_pressure 0.0 and field.drift 0.0; the
\* record passes both gates and the spawn succeeds, taking active_agents from
\* 0 to 1.
C16_FirstScenario ==
    /\ []((/\ Len(history) = 0
           /\ stages # <<>>
           /\ obs = [k \in {"confidence", "novelty", "complexity", "coherence"} |->
                        CASE k = "confidence" -> 4500 [] k = "novelty" -> 8000
                          [] k = "complexity" -> 7000 [] k = "coherence" -> 6000]) =>
            /\ records[cur].coherence = 6000
            /\ records[cur].uncertainty = 5500
            /\ dicts[records[cur].field]["novelty"] = 3600
            /\ dicts[records[cur].field]["complexity"] = 4200
            /\ dicts[records[cur].field]["risk"] = 2200
            /\ dicts[records[cur].field]["memory_pressure"] = 0
            /\ StageRan("reflect") => dicts[records[cur].field]["drift"] = 0
            /\ pc # "aborted"
            /\ StageRan("register_spawn") => active_agents = 1
            /\ (StageRan("spawn") /\ ~StageRan("dissolve")) =>
                  spawned[cur_agent] = [awareness |-> cur, alive |-> TRUE])
    /\ [][(/\ Len(history) = 0
           /\ pc = "register_spawn"
           /\ obs = [k \in {"confidence", "novelty", "complexity", "coherence"} |->
                        CASE k = "confidence" -> 4500 [] k = "novelty" -> 8000
                          [] k = "complexity" -> 7000 [] k = "coherence" -> 6000]) =>
            (active_agents = 0 /\ active_agents' = 1 /\ last'.exc = "none")]_vars

\* The first scenario passed both gates and its agent was spawned.
C16_Witness ==
    /\ Len(history) = 0
    /\ pc = "act"
    /\ obs = [k \in {"confidence", "novelty", "complexity", "coherence"} |->
                 CASE k = "confidence" -> 4500 [] k = "novelty" -> 8000
                   [] k = "complexity" -> 7000 [] k = "coherence" -> 6000]
    /\ active_agents = 1
    /\ spawned[cur_agent].alive

\* C21: Lineage is append-only and its step indices are consecutive: the i-th
\* entry (0-based) has step = i, and earlier entries are never changed or
\* removed; in the pipeline there is one Lineage entry per Memory update, so
\* lineage.length() = memory.depth() after every completed cycle.
C21_LineageAppendOnly ==
    /\ [](\A i \in DOMAIN chain : chain[i].step = i - 1)
    /\ [][/\ Len(chain') >= Len(chain)
          /\ \A i \in DOMAIN chain : chain'[i] = chain[i]
          /\ Len(chain') # Len(chain) =>
                (pc = "lineage_track" /\ Len(chain') = Len(chain) + 1)]_vars
    /\ [](pc = "generate" => Len(chain) = Len(snapshots))
    /\ [](Len(chain) <= Len(snapshots))

\* Two cycles completed, each with its own lineage entry.
C21_Witness ==
    /\ pc = "generate"
    /\ Len(chain) = 2
    /\ Len(snapshots) = 2
    /\ chain[1].step = 0
    /\ chain[2].step = 1
    /\ chain[1].coherence # chain[2].coherence

\* C22: each process-wide collection is mutated only by its own writer:
\* Memory's latest state is changed only by Memory.update, so generate,
\* regulate, Lineage.track, Feedback.apply and the audit components leave
\* its keys and values as Memory.update last wrote them.
C22_MemoryHasOneWriter ==
    [][/\ memory_state' # memory_state => pc = "memory_update"
       /\ snapshots' # snapshots => pc = "memory_update"
       /\ chain' # chain => pc = "lineage_track"
       /\ traces' # traces => pc = "explain_decision"
       /\ evaluations' # evaluations => pc = "evaluate"]_vars

\* C24: reflect(record, history) returns the same record with field.drift set
\* to |record.coherence - history[-1].coherence| when history is non-empty and
\* to 0.0 when it is empty; it changes no other field key, neither coherence
\* nor uncertainty, and not the history.
C24_ReflectSetsDriftOnly ==
    [][stage_reflect =>
          LET before == dicts[records[cur].field]
              after == dicts'[records[cur].field]
              c == records[cur].coherence
              prev == records[history[Len(history)]].coherence
          IN  /\ after["drift"] = (IF history = <<>> THEN 0
                                   ELSE IF c >= prev THEN c - prev ELSE prev - c)
              /\ DOMAIN after = DOMAIN before \cup {"drift"}
              /\ \A k \in DOMAIN before \ {"drift"} : after[k] = before[k]
              /\ records' = records
              /\ history' = history
              /\ last'.ret = cur]_vars

\* reflect ran on a record less coherent than the last one of the history.
C24_Witness ==
    /\ last.op = "reflect"
    /\ Len(history) = 1
    /\ records[cur].coherence < records[history[1]].coherence
    /\ dicts[records[cur].field]["drift"] =
          records[history[1]].coherence - records[cur].coherence

\* C25: a record is read-only from the Invariant Gate onward: enforce,
\* validate, spawn, act, explain_decision, evaluate, explore, Memory.update,
\* Lineage.track, Feedback.apply, dissolve and assess never change its
\* coherence, uncertainty or field, so every record in history is as it left
\* the Stability Regulator, and the history list is only ever appended to.
C25_RecordReadOnlyAfterGate ==
    /\ [][StageRan("enforce") =>
            \A r \in DOMAIN records :
                /\ records'[r] = records[r]
                /\ dicts'[records[r].field] = dicts[records[r].field]]_vars
    /\ [][\A i \in DOMAIN history :
            /\ i \in DOMAIN history'
            /\ history'[i] = history[i]
            /\ records'[history[i]] = records[history[i]]
            /\ dicts'[records[history[i]].field] = dicts[records[history[i]].field]]_vars

\* Two records are archived, annotated by reflect and regulate, with the
\* residue of the last one captured from the same field.
C25_Witness ==
    /\ pc = "generate"
    /\ Len(history) = 2
    /\ DOMAIN dicts[records[history[1]].field] =
          {"novelty", "complexity", "risk", "memory_pressure", "drift", "stability"}
    /\ dicts[dissolved_residues[2].final_field] = dicts[records[history[2]].field]
    /\ dicts[records[history[2]].field]["drift"] > 0

\* C28: in every cycle after the first, Memory's coherence equals the
\* previous record's coherence, so the record has field.memory_pressure =
\* previous coherence and field.drift = |field.stability|; hence
\* Self-Evaluation's integrity is 0 and action_required is true in every
\* cycle after the first, whatever the observation.
C28_LaterCyclesRequireAction ==
    (cur >= 2 /\ stages # <<>>) =>
        /\ ~StageRan("memory_update") =>
              memory_state["coherence"] = records[cur - 1].coherence
        /\ dicts[records[cur].field]["memory_pressure"] = records[cur - 1].coherence
        /\ StageRan("regulate") =>
              LET f == dicts[records[cur].field]
              IN  f["drift"] = (IF f["stability"] >= 0 THEN f["stability"]
                                ELSE 0 - f["stability"])
        /\ StageRan("evaluate") =>
              /\ evaluations[Len(evaluations)].integrity = 0
              /\ evaluations[Len(evaluations)].action_required

\* The same coherent observation was evaluated twice: no action was required
\* in the first cycle, and action is required in the second.
C28_Witness ==
    /\ cur = 2
    /\ Len(evaluations) = 2
    /\ records[1].coherence = records[2].coherence
    /\ ~evaluations[1].action_required
    /\ evaluations[2].coherent
    /\ evaluations[2].action_required

----------------------------------------------------------------------------
(* Claims about the recursion ceiling, checked under SpecDepth *)

\* C26: depth being the history length and enforce rejecting depth >
\* MAX_DEPTH, the history never holds more than MAX_DEPTH + 1 = 6 records in
\* any run of the pipeline: once six cycles have completed, every further
\* observation is rejected by the Invariant Gate whatever its values, and no
\* further agent is spawned.
C26_HistoryAtMostSix ==
    /\ Len(history) <= 6
    /\ Len(spawned) <= 6
    /\ (Len(history) = 6 /\ last.op = "enforce") =>
          (last.exc = "InvariantViolation" /\ pc = "aborted")
    /\ Len(history) = 6 => pc \in {"dissolve", "register_dissolution", "assess",
                                   "generate", "reflect", "regulate", "enforce",
                                   "aborted"}

\* The seventh observation was refused for its depth after six full cycles.
C26_Witness ==
    /\ pc = "aborted"
    /\ Len(history) = 6
    /\ Len(records) = 7
    /\ Len(spawned) = 6
    /\ last.msg = "recursion_exceeded"

----------------------------------------------------------------------------
(* Claims about in-range observations, checked under SpecRange *)

\* C29: for every observation whose coherence and confidence lie in [0,1]
\* and every memory state, a record produced by generate, reflect and
\* regulate that the Invariant Gate accepts is also accepted by the Ethics
\* Gate: in the pipeline validate never rejects such a record.
C29_EthicsNeverRejectsAfterInvariants ==
    (/\ stages # <<>>
     /\ \A k \in DOMAIN obs : 0 <= obs[k] /\ obs[k] <= 10000) =>
        /\ last.op = "validate" => last.exc = "none"
        /\ last.exc # "EthicsViolation"
        /\ pc = "aborted" => last.op = "enforce"

\* validate accepted the record of greatest risk the invariant gate admits,
\* with no stability left against the memory of the cycle before.
C29_Witness ==
    /\ last.op = "validate"
    /\ last.exc = "none"
    /\ records[cur].uncertainty = 8500
    /\ records[cur].coherence = 1500
    /\ dicts[records[cur].field]["stability"] = 0
    /\ dicts[records[cur].field]["risk"] = 7225

----------------------------------------------------------------------------
(* Claims about Continuity.assess, checked under SpecContinuity *)

\* C17: Continuity.assess on the empty history does not fail and returns
\* exactly {length: 0, continuous: False, average_coherence: 0.0,
\* coherence_trend: "none", drift_events: 0}.
C17_AssessEmptyHistory ==
    (last.op = "assess" /\ last.arg = <<>>) =>
        /\ last.exc = "none"
        /\ last.ret = [length |-> 0, continuous |-> FALSE, average_coherence |-> 0,
                       coherence_trend |-> "none", drift_events |-> 0]

\* assess was called on the empty history.
C17_Witness ==
    /\ last.op = "assess"
    /\ last.arg = <<>>
    /\ last.ret.coherence_trend = "none"

\* C18: for every non-empty history, assess returns length = len(history);
\* coherence_trend = insufficient_data when length is 1, otherwise improving /
\* degrading / stable as the last record's coherence is greater than / less
\* than / equal to the first record's; drift_events = the number of entries at
\* index >= 1 whose field.drift > 0.2 (index 0 never counted, an absent drift
\* counted as 0); continuous is true exactly when drift_events = 0.
C18_AssessNonEmptyHistory ==
    (last.op = "assess" /\ last.arg # <<>>) =>
        LET h == last.arg
            n == Len(h)
            first == records[h[1]].coherence
            final == records[h[n]].coherence
            drifting(i) == /\ "drift" \in DOMAIN dicts[records[h[i]].field]
                           /\ dicts[records[h[i]].field]["drift"] > 2000
        IN  /\ last.ret.length = n
            /\ n = 1 => last.ret.coherence_trend = "insufficient_data"
            /\ (n > 1 /\ final > first) => last.ret.coherence_trend = "improving"
            /\ (n > 1 /\ final < first) => last.ret.coherence_trend = "degrading"
            /\ (n > 1 /\ final = first) => last.ret.coherence_trend = "stable"
            /\ last.ret.drift_events = Cardinality({i \in 1..n : i > 1 /\ drifting(i)})
            /\ last.ret.continuous = (last.ret.drift_events = 0)

\* assess found a history continuous whose first entry drifts above 0.2 and
\* whose later entries sit at the threshold or have no drift.
C18_Witness ==
    /\ last.op = "assess"
    /\ Len(last.arg) = 3
    /\ dicts[records[last.arg[1]].field] = [k \in {"drift"} |-> 2100]
    /\ dicts[records[last.arg[2]].field] = [k \in {"drift"} |-> 2000]
    /\ dicts[records[last.arg[3]].field] = EmptyDict
    /\ last.ret.continuous
    /\ last.ret.coherence_trend = "improving"

----------------------------------------------------------------------------
(* Claims about Counterfactual.explore, checked under SpecExplore *)

\* C19 as stated: for every record with coherence and uncertainty in [0,1],
\* explore tags the coherence_collapse scenario with would_violate_invariant
\* = True whenever the base uncertainty >= 0.55 or the base coherence <= 0.55,
\* the boundaries included.
C19_CollapseViolatesAtBoundary ==
    last.op = "explore" =>
        ((records[last.arg].uncertainty >= 5500 \/ records[last.arg].coherence <= 5500)
            => last.ret.coherence_collapse.would_violate_invariant)

\* C19 as amended: the coherence_collapse scenario is tagged True whenever the
\* base uncertainty >= 0.55 or the base coherence < 0.55; at a base coherence
\* of exactly 0.55 with the base uncertainty below 0.55 it is tagged False.
C19_CollapseViolatesBelowBoundary ==
    last.op = "explore" =>
        /\ (records[last.arg].uncertainty >= 5500 \/ records[last.arg].coherence < 5500)
              => last.ret.coherence_collapse.would_violate_invariant
        /\ (records[last.arg].uncertainty < 5500 /\ records[last.arg].coherence = 5500)
              => ~last.ret.coherence_collapse.would_violate_invariant

\* explore tagged the collapse of a record at uncertainty 0.55 exactly, with
\* its coherence well above 0.55.
C19_Witness ==
    /\ last.op = "explore"
    /\ records[last.arg].uncertainty = 5500
    /\ records[last.arg].coherence = 10000
    /\ last.ret.coherence_collapse.would_violate_invariant

----------------------------------------------------------------------------
(* Claims about the completion backend, checked under SpecBackend *)

\* C20: with a completion backend configured and enabled, act issues exactly
\* one complete request, and if the backend fails or is unavailable the
\* response in the act output is the empty string: the failure never raises
\* past the agent, and the agent stays alive and can still be dissolved.
C20_FailedBackendGivesEmptyString ==
    /\ [][\A a \in DOMAIN spawned, ctx \in LifeContexts, outcome \in BackendOutcomes :
            (/\ act_with_backend(a, ctx, outcome)
             /\ llm # "none"
             /\ spawned[a].alive) =>
                /\ requests' = requests + 1
                /\ last'.exc = "none"
                /\ spawned'[a].alive
                /\ spawned'[a].awareness # None]_vars
    /\ []((/\ last.op = "act_with_backend"
           /\ last.exc = "none"
           /\ llm # "none"
           /\ last.arg[2] \in {"error_reply", "exception"}) =>
            last.ret.llm_response = "")

----------------------------------------------------------------------------
(* Claims about concurrent callers, checked under SpecThreads *)

\* C23: when two or more callers run register_spawn concurrently against the
\* same counter, with any interleaving of their steps, the increment, the
\* capacity check and the rollback of one call behave atomically: nobody
\* ever sees active_agents above MAX_AGENTS, and the number of register_spawn
\* calls that succeed without a matching dissolution never exceeds MAX_AGENTS.
C23_RegisterSpawnAtomic ==
    /\ active_agents <= 20
    /\ granted <= 20

====
